---- MODULE Spec2Model ----
(***************************************************************************)
(* A model of three parts of the BLIS sources:                             *)
(*   - the template trsm_u micro-kernel bli_dtrsm_u_opt_mxn                *)
(*     (config/template/kernels/3/bli_trsm_u_opt_mxn.c),                   *)
(*   - the setv dispatcher bli_setv_unb_var1 and its typed kernels         *)
(*     (frame/1/setv/bli_setv_unb_var1.c),                                 *)
(*   - the residual check libblis_test_syrk_check                          *)
(*     (testsuite/src/test_syrk.c),                                        *)
(* together with the experiment libblis_test_syrk_experiment that calls    *)
(* the check.  Each program is one record-valued variable whose fields     *)
(* carry the names of the C objects they model.                            *)
(***************************************************************************)
EXTENDS Integers, Sequences, FiniteSets, TLC

VARIABLES trsm, setv, chk, exp

vars == <<trsm, setv, chk, exp>>

(***************************************************************************)
(* Bounds of the model.                                                    *)
(***************************************************************************)
MaxM == 2
MaxN == 2
MaxVecN == 4
MaxInc == 2
MaxCheckM == 2
MaxCheckK == 2
MaxRepeats == 2

(***************************************************************************)
(* Floating-point values.  A value is a record [k, s, m]: class (finite,   *)
(* infinite, not-a-number), sign bit and magnitude.  Finite magnitudes are *)
(* small integers, which double precision represents exactly; the signed   *)
(* zeros, the infinities and NaN behave as IEEE 754 prescribes.            *)
(***************************************************************************)
Abs(z) == IF z < 0 THEN -z ELSE z

F(z) == [k |-> "fin", s |-> (IF z < 0 THEN 1 ELSE 0), m |-> Abs(z)]

NegZero == [k |-> "fin", s |-> 1, m |-> 0]

PInf == [k |-> "inf", s |-> 0, m |-> 0]

NInf == [k |-> "inf", s |-> 1, m |-> 0]

NaN == [k |-> "nan", s |-> 0, m |-> 0]

IsFinite(x) == x.k = "fin"

IntOf(x) == IF x.s = 1 THEN -(x.m) ELSE x.m

Neg(x) == IF x.k = "nan" THEN x ELSE [x EXCEPT !.s = 1 - x.s]

\* IEEE addition, round to nearest: an exact zero sum is +0 unless both
\* operands are -0.
Add(x, y) ==
    IF x.k = "nan" \/ y.k = "nan" THEN NaN
    ELSE IF x.k = "inf" /\ y.k = "inf" THEN (IF x.s = y.s THEN x ELSE NaN)
    ELSE IF x.k = "inf" THEN x
    ELSE IF y.k = "inf" THEN y
    ELSE IF IntOf(x) + IntOf(y) = 0
         THEN (IF x.s = 1 /\ y.s = 1 THEN NegZero ELSE F(0))
         ELSE F(IntOf(x) + IntOf(y))

\* IEEE multiplication: the sign is the exclusive or of the signs, and
\* zero times infinity is NaN.
Mul(x, y) ==
    IF x.k = "nan" \/ y.k = "nan" THEN NaN
    ELSE IF (x.k = "inf" /\ y.k = "fin" /\ y.m = 0)
            \/ (y.k = "inf" /\ x.k = "fin" /\ x.m = 0) THEN NaN
    ELSE IF x.k = "inf" \/ y.k = "inf"
         THEN [k |-> "inf", s |-> (x.s + y.s) % 2, m |-> 0]
         ELSE [k |-> "fin", s |-> (x.s + y.s) % 2, m |-> x.m * y.m]

(***************************************************************************)
(* The scalar macros the micro-kernel uses.                                *)
(***************************************************************************)
\* bli_dset0s( y ):  y = 0.0
dset0s == F(0)

\* bli_daxpys( a, x, y ):  y += a * x
daxpys(a, x, y) == Add(y, Mul(a, x))

\* bli_dsubs( a, y ):  y -= a
dsubs(a, y) == Add(y, Neg(a))

\* bli_dscals( a, y ):  y *= a
dscals(a, y) == Mul(y, a)

\* bli_dcopys( x, y ):  y = x
dcopys(x) == x

(***************************************************************************)
(* bli_dtrsm_u_opt_mxn: strides and the pointers of one iteration, as      *)
(* offsets from a, b and c.                                                *)
(***************************************************************************)
rs_a(t) == 1

cs_a(t) == t.packmr

rs_b(t) == t.packnr

cs_b(t) == 1

\* A variant of alpha11 that stays on the first diagonal element.
alpha11_first(t) == 0 * rs_a(t) + 0 * cs_a(t)

alpha11(t) == (t.i) * rs_a(t) + (t.i) * cs_a(t)

\* Variants of a12t: starting on the diagonal, and starting below it.
a12t_diag(t) == (t.i) * rs_a(t) + (t.i) * cs_a(t)

a12t_lower(t) == (t.i + 1) * rs_a(t) + (t.i) * cs_a(t)

a12t(t) == (t.i) * rs_a(t) + (t.i + 1) * cs_a(t)

x1(t) == (t.i) * rs_b(t) + 0 * cs_b(t)

\* A variant of X2 that starts at the row being solved.
X2_same(t) == (t.i) * rs_b(t) + 0 * cs_b(t)

X2(t) == (t.i + 1) * rs_b(t) + 0 * cs_b(t)

chi11(t) == x1(t) + 0 * rs_b(t) + (t.j) * cs_b(t)

x21(t) == X2(t) + 0 * rs_b(t) + (t.j) * cs_b(t)

\* A variant of gamma11 that uses the row stride for both indices.
gamma11_row(t) == (t.i) * t.rs_c + (t.j) * t.rs_c

gamma11(t) == (t.i) * t.rs_c + (t.j) * t.cs_c

alpha12(t) == a12t(t) + (t.l) * cs_a(t)

chi21(t) == x21(t) + (t.l) * rs_b(t)

\* i = m - iter - 1
RowOfIter(m, iter) == m - iter - 1

\* A variant of n_behind that leaves out the last solved row.
BehindShort(m, iter) == IF iter > 0 THEN iter - 1 ELSE 0

\* n_behind = iter
BehindOfIter(m, iter) == iter

(***************************************************************************)
(* The inputs of the micro-kernel.                                         *)
(***************************************************************************)
\* Strictly upper elements and stored diagonal (the reciprocals) of A11.
AOffVals == {F(0), F(-1)}

ADiagVals == {F(1), F(2)}

\* What the packing may have left in the unstored triangle and the padding.
GarbageVals == {NaN, F(5)}

BSeeds == {"pos", "neg", "inf"}

\* The element (ii, jj) of the right-hand side of one seed; the last row of
\* the seed "inf" is not finite.
BInput(seed, mm, nn, ii, jj) ==
    CASE seed = "pos" -> F(ii * nn + jj + 1)
      [] seed = "neg" -> F(-(2 * ii + 3 * jj + 1))
      [] seed = "inf" -> IF ii = mm - 1
                         THEN (IF jj % 2 = 0 THEN PInf ELSE NInf)
                         ELSE F(ii + jj + 1)

\* Row and column strides of C11: row-major and column-major with a leading
\* dimension, and general strides that leave gaps between the elements.
CStrides(mm, nn, pad) ==
    {<<nn + pad, 1>>, <<1, mm + pad>>, <<2 * (nn + pad), 2>>}

CLen(mm, nn) == 2 * (mm + 1) * (nn + 1)

\* The packed A11: stored by columns with leading dimension PACKMR.
PackedA(mm, pmr, up, dg, g) ==
    [q \in 0..(pmr * mm - 1) |->
        LET r == q % pmr
            cl == q \div pmr
        IN  IF r >= mm \/ r > cl THEN g
            ELSE IF r = cl THEN dg[r] ELSE up[<<r, cl>>]]

\* The packed B11: stored by rows with leading dimension PACKNR.
PackedB(mm, nn, pnr, seed, g) ==
    [q \in 0..(pnr * mm - 1) |->
        LET r == q \div pnr
            cl == q % pnr
        IN  IF cl >= nn THEN g ELSE BInput(seed, mm, nn, r, cl)]

UpperPairs(mm) == {p \in (0..(mm - 1)) \X (0..(mm - 1)) : p[1] < p[2]}

TrsmIdle ==
    [pc |-> "idle", m |-> 0, n |-> 0, packmr |-> 0, packnr |-> 0,
     rs_c |-> 0, cs_c |-> 0, a |-> <<>>, b |-> <<>>, c |-> <<>>,
     b0 |-> <<>>, c0 |-> <<>>,
     iter |-> 0, i |-> 0, j |-> 0, l |-> 0, n_behind |-> 0, rho11 |-> F(0),
     aReads |-> {}, bReads |-> {}, bWrites |-> <<>>, cWrites |-> <<>>,
     a0 |-> <<>>, rowOrder |-> <<>>, cellReads |-> {}, bLog |-> <<>>]

TrsmInit ==
    \E mm \in 0..MaxM, nn \in 0..MaxN, pad \in {0, 1},
       g \in GarbageVals, seed \in BSeeds :
      \E up \in [UpperPairs(mm) -> AOffVals],
         dg \in [0..(mm - 1) -> ADiagVals],
         st \in CStrides(mm, nn, pad) :
        LET A0 == PackedA(mm, mm + pad, up, dg, g)
            B0 == PackedB(mm, nn, nn + pad, seed, g)
            C0 == [q \in 0..(CLen(mm, nn) - 1) |-> F(50 + q)]
        IN  trsm = [pc |-> "iter_loop", m |-> mm, n |-> nn,
                    packmr |-> mm + pad, packnr |-> nn + pad,
                    rs_c |-> st[1], cs_c |-> st[2],
                    a |-> A0, b |-> B0, c |-> C0, b0 |-> B0, c0 |-> C0,
                    iter |-> 0, i |-> 0, j |-> 0, l |-> 0, n_behind |-> 0,
                    rho11 |-> F(0),
                    aReads |-> {}, bReads |-> {},
                    bWrites |-> <<>>, cWrites |-> <<>>,
                    a0 |-> A0, rowOrder |-> <<>>, cellReads |-> {},
                    bLog |-> <<>>]

(***************************************************************************)
(* bli_dtrsm_u_opt_mxn, one action per loop test and loop body.            *)
(***************************************************************************)
\* for ( iter = 0; iter < m; ++iter ): enter the body of one row.
TrsmRow ==
    /\ trsm.pc = "iter_loop"
    /\ trsm.iter < trsm.m
    /\ trsm' = [trsm EXCEPT !.i = RowOfIter(trsm.m, trsm.iter),
                            !.n_behind = BehindOfIter(trsm.m, trsm.iter),
                            !.rowOrder = Append(@, RowOfIter(trsm.m, trsm.iter)),
                            !.j = 0,
                            !.pc = "j_loop"]
    /\ UNCHANGED <<setv, chk, exp>>

\* The iter loop ends and the function returns.
TrsmReturn ==
    /\ trsm.pc = "iter_loop"
    /\ ~(trsm.iter < trsm.m)
    /\ trsm' = [trsm EXCEPT !.pc = "done"]
    /\ UNCHANGED <<setv, chk, exp>>

\* for ( j = 0; j < n; ++j ): enter the body of one column, clear rho11.
TrsmCol ==
    /\ trsm.pc = "j_loop"
    /\ trsm.j < trsm.n
    /\ trsm' = [trsm EXCEPT !.rho11 = dset0s, !.l = 0, !.cellReads = {},
                            !.pc = "l_loop"]
    /\ UNCHANGED <<setv, chk, exp>>

\* The j loop ends: ++iter.
TrsmRowEnd ==
    /\ trsm.pc = "j_loop"
    /\ ~(trsm.j < trsm.n)
    /\ trsm' = [trsm EXCEPT !.iter = @ + 1, !.pc = "iter_loop"]
    /\ UNCHANGED <<setv, chk, exp>>

\* for ( l = 0; l < n_behind; ++l ): rho11 += (*alpha12) * (*chi21).
TrsmAxpy ==
    /\ trsm.pc = "l_loop"
    /\ trsm.l < trsm.n_behind
    /\ trsm' = [trsm EXCEPT
                  !.rho11 = daxpys(trsm.a[alpha12(trsm)],
                                   trsm.b[chi21(trsm)], @),
                  !.aReads = @ \cup {alpha12(trsm)},
                  !.bReads = @ \cup {chi21(trsm)},
                  !.cellReads = @ \cup {chi21(trsm)},
                  !.bLog = Append(@, <<"r", chi21(trsm)>>),
                  !.l = @ + 1]
    /\ UNCHANGED <<setv, chk, exp>>

\* The l loop ends: *chi11 -= rho11.
TrsmSubs ==
    /\ trsm.pc = "l_loop"
    /\ ~(trsm.l < trsm.n_behind)
    /\ trsm' = [trsm EXCEPT
                  !.b[chi11(trsm)] = dsubs(trsm.rho11, @),
                  !.bWrites = Append(@, chi11(trsm)),
                  !.bLog = Append(@, <<"w", chi11(trsm)>>),
                  !.pc = "scal"]
    /\ UNCHANGED <<setv, chk, exp>>

\* A variant that outputs to C before the scaling.
TrsmCopyScal ==
    /\ trsm.pc = "scal"
    /\ LET chi == dscals(trsm.a[alpha11(trsm)], trsm.b[chi11(trsm)])
       IN  trsm' = [trsm EXCEPT
                      !.b[chi11(trsm)] = chi,
                      !.c[gamma11(trsm)] = dcopys(trsm.b[chi11(trsm)]),
                      !.aReads = @ \cup {alpha11(trsm)},
                      !.bWrites = Append(@, chi11(trsm)),
                      !.bLog = Append(@, <<"w", chi11(trsm)>>),
                      !.cWrites = Append(@, gamma11(trsm)),
                      !.j = @ + 1,
                      !.pc = "j_loop"]
    /\ UNCHANGED <<setv, chk, exp>>

\* *chi11 *= *alpha11; *gamma11 = *chi11; ++j.
TrsmScalCopy ==
    /\ trsm.pc = "scal"
    /\ LET chi == dscals(trsm.a[alpha11(trsm)], trsm.b[chi11(trsm)])
       IN  trsm' = [trsm EXCEPT
                      !.b[chi11(trsm)] = chi,
                      !.c[gamma11(trsm)] = dcopys(chi),
                      !.aReads = @ \cup {alpha11(trsm)},
                      !.bWrites = Append(@, chi11(trsm)),
                      !.bLog = Append(@, <<"w", chi11(trsm)>>),
                      !.cWrites = Append(@, gamma11(trsm)),
                      !.j = @ + 1,
                      !.pc = "j_loop"]
    /\ UNCHANGED <<setv, chk, exp>>

TrsmNext ==
    \/ TrsmRow
    \/ TrsmReturn
    \/ TrsmCol
    \/ TrsmRowEnd
    \/ TrsmAxpy
    \/ TrsmSubs
    \/ TrsmScalCopy

(***************************************************************************)
(* setv: datatypes, scalars and the typed scalar macros.  An element is a  *)
(* record [re, im]; the im field of an element of a real type is not part  *)
(* of the element and always holds +0.                                     *)
(***************************************************************************)
Dts == {"s", "c", "d", "z"}

IsComplexDt(dt) == dt \in {"c", "z"}

IsSingleDt(dt) == dt \in {"s", "c"}

\* Integers up to 2^24 in magnitude are exact in single precision.
SingleExact == 16777216

\* double -> float, round to nearest even, for magnitudes below 2^25.
RoundSingle(v) ==
    IF v.k = "fin" /\ v.m > SingleExact /\ v.m % 2 = 1
    THEN [v EXCEPT !.m = IF (v.m + 1) % 4 = 0 THEN v.m + 1 ELSE v.m - 1]
    ELSE v

\* PASTEMAC(chb,eq0)( beta ): beta == 0, in both parts for a complex type.
IsZeroVal(v) == v.k = "fin" /\ v.m = 0

eq0(chb, beta) ==
    IF IsComplexDt(chb) THEN IsZeroVal(beta.re) /\ IsZeroVal(beta.im)
    ELSE IsZeroVal(beta.re)

\* PASTEMAC(chx,set0s)( chi ): the zero of the type of x.
set0s(chx) == [re |-> F(0), im |-> F(0)]

\* PASTEMAC2(chb,chx,copys)( beta, chi ): beta converted to the type of x.
ConvPrec(chb, chx, v) ==
    IF IsSingleDt(chx) /\ ~IsSingleDt(chb) THEN RoundSingle(v) ELSE v

copys(chb, chx, beta) ==
    [re |-> ConvPrec(chb, chx, beta.re),
     im |-> IF IsComplexDt(chx) /\ IsComplexDt(chb)
            THEN ConvPrec(chb, chx, beta.im) ELSE F(0)]

\* bli_zero_dim1( n )
zero_dim1(n) == n = 0

(***************************************************************************)
(* The table ftypes[dt_beta][dt_x] of the three configurations: neither    *)
(* mixed domain nor mixed precision (GENARRAY2_MIN), mixed domain          *)
(* (GENARRAY2_EXT), and both (GENARRAY2_ALL).                              *)
(***************************************************************************)
Cfgs == {"MIN", "EXT", "ALL"}

NULL == <<"NULL">>

MixedDomainPair(chb, chx) ==
    /\ IsSingleDt(chb) = IsSingleDt(chx)
    /\ IsComplexDt(chb) # IsComplexDt(chx)

MixedPrecisionPair(chb, chx) == IsSingleDt(chb) # IsSingleDt(chx)

\* A table that registers every pair, whatever the configuration.
ftypes_all(cfg, chb, chx) == <<chb, chx>>

ftypes(cfg, chb, chx) ==
    IF chb = chx THEN <<chb, chx>>
    ELSE IF cfg = "ALL" THEN <<chb, chx>>
    ELSE IF cfg = "EXT" /\ MixedDomainPair(chb, chx) THEN <<chb, chx>>
    ELSE NULL

(***************************************************************************)
(* The inputs of bli_setv_unb_var1.                                        *)
(***************************************************************************)
\* The values a scalar object of a datatype may hold; BLIS_CONSTANT objects
\* (BLIS_ZERO, BLIS_ONE, BLIS_MINUS_ONE) hold one value in every datatype.
BetaReVals(dt) ==
    {F(0), NegZero, F(3), NaN, PInf}
    \cup (IF IsSingleDt(dt) THEN {} ELSE {F(SingleExact + 1), F(-(SingleExact + 3))})

BetaImVals(dt) == IF IsComplexDt(dt) THEN {F(0), F(-2)} ELSE {F(0)}

BetaObjs ==
    {o \in [dt : Dts, re : BetaReVals("z"), im : BetaImVals("z")] :
        o.re \in BetaReVals(o.dt) /\ o.im \in BetaImVals(o.dt)}
    \cup {[dt |-> "constant", re |-> re, im |-> F(0)] :
            re \in {F(0), F(1), F(-1)}}

XLen == (MaxVecN - 1) * MaxInc + 1

\* What the buffer of x holds before the call.
OldX(q) ==
    CASE q % 3 = 0 -> [re |-> F(7 + q), im |-> F(0)]
      [] q % 3 = 1 -> [re |-> NaN, im |-> F(0)]
      [] q % 3 = 2 -> [re |-> PInf, im |-> F(0)]

\* The offsets the vector (off, n, inc) addresses.
Addressed(off, n, inc) == {off + kk * inc : kk \in 0..(n - 1)}

XObjs ==
    {o \in [dt : Dts, n : 0..MaxVecN, inc : (-MaxInc)..MaxInc,
            off : {0, XLen - 1}] :
        Addressed(o.off, o.n, o.inc) \subseteq 0..(XLen - 1)}

SetvIdle ==
    [pc |-> "idle", cfg |-> "MIN",
     beta |-> [dt |-> "constant", re |-> F(0), im |-> F(0)],
     x |-> [dt |-> "s", n |-> 0, inc |-> 0, off |-> 0],
     xbuf |-> <<>>, xbuf0 |-> <<>>,
     dt_x |-> "s", dt_beta |-> "s",
     buf_beta |-> [re |-> F(0), im |-> F(0)],
     f |-> NULL, calls |-> <<>>, nullCall |-> FALSE, usedZeroPath |-> FALSE,
     n |-> 0, beta_cast |-> [re |-> F(0), im |-> F(0)], incx |-> 0,
     i |-> 0, chi1 |-> 0, xWrites |-> <<>>]

SetvInit ==
    \E cfg \in Cfgs, bo \in BetaObjs, xo \in XObjs :
        LET X0 == [q \in 0..(XLen - 1) |-> OldX(q)]
        IN  setv = [SetvIdle EXCEPT !.pc = "start", !.cfg = cfg, !.beta = bo,
                                    !.x = xo, !.xbuf = X0, !.xbuf0 = X0]

(***************************************************************************)
(* bli_setv_unb_var1.                                                      *)
(***************************************************************************)
\* bli_set_scalar_dt_buffer( beta, dt_x, dt_beta, buf_beta ): the datatype
\* under which beta is read.  A variant takes dt_x for every beta.
scalar_dt_aux(beta, dt_x) == dt_x

scalar_dt(beta, dt_x) == IF beta.dt = "constant" THEN dt_x ELSE beta.dt

\* ... and the buffer of beta for that datatype.
scalar_buffer(beta, dt_x) ==
    [re |-> beta.re, im |-> IF IsComplexDt(scalar_dt(beta, dt_x)) THEN beta.im ELSE F(0)]

\* Lines 61-80: read the fields of x, resolve beta, index the table.
SetvDispatch ==
    /\ setv.pc = "start"
    /\ setv' = [setv EXCEPT
                  !.dt_x = setv.x.dt,
                  !.dt_beta = scalar_dt(setv.beta, setv.x.dt),
                  !.buf_beta = scalar_buffer(setv.beta, setv.x.dt),
                  !.f = ftypes(setv.cfg, scalar_dt(setv.beta, setv.x.dt),
                               setv.x.dt),
                  !.pc = "invoke"]
    /\ UNCHANGED <<trsm, chk, exp>>

\* Lines 83-85: f( n, buf_beta, buf_x, inc_x ) with f a routine.
SetvInvoke ==
    /\ setv.pc = "invoke"
    /\ setv.f # NULL
    /\ setv' = [setv EXCEPT
                  !.calls = Append(@, [f |-> setv.f, n |-> setv.x.n,
                                       x |-> setv.x.off, incx |-> setv.x.inc]),
                  !.n = setv.x.n,
                  !.beta_cast = setv.buf_beta,
                  !.chi1 = setv.x.off,
                  !.incx = setv.x.inc,
                  !.pc = "zero_dim"]
    /\ UNCHANGED <<trsm, chk, exp>>

\* Lines 83-85 with f null: the call is undefined behaviour; the process
\* is killed by a fault, or the call has no effect.
SetvInvokeNull ==
    /\ setv.pc = "invoke"
    /\ setv.f = NULL
    /\ \E outcome \in {"fault", "done"} :
          setv' = [setv EXCEPT !.nullCall = TRUE, !.pc = outcome]
    /\ UNCHANGED <<trsm, chk, exp>>

(***************************************************************************)
(* The typed kernel PASTEMAC2(chb,chx,setv_unb_var1); chb and chx are the  *)
(* two components of f.                                                    *)
(***************************************************************************)
\* A variant that stores one element before it tests the length.
KernelZeroDimStore ==
    /\ setv.pc = "zero_dim"
    /\ zero_dim1(setv.n)
    /\ setv' = [setv EXCEPT
                  !.xbuf[setv.chi1] = set0s(setv.f[2]),
                  !.xWrites = Append(@, setv.chi1),
                  !.pc = "done"]
    /\ UNCHANGED <<trsm, chk, exp>>

\* if ( bli_zero_dim1( n ) ) return;
KernelZeroDim ==
    /\ setv.pc = "zero_dim"
    /\ zero_dim1(setv.n)
    /\ setv' = [setv EXCEPT !.pc = "done"]
    /\ UNCHANGED <<trsm, chk, exp>>

\* if ( eq0( *beta_cast ) ): choose the loop.  A variant never takes the
\* zero-fill loop.
KernelTestNoZero ==
    /\ setv.pc = "zero_dim"
    /\ ~zero_dim1(setv.n)
    /\ setv' = [setv EXCEPT !.i = 0, !.pc = "copy_loop"]
    /\ UNCHANGED <<trsm, chk, exp>>

KernelTest ==
    /\ setv.pc = "zero_dim"
    /\ ~zero_dim1(setv.n)
    /\ setv' = [setv EXCEPT
                  !.i = 0,
                  !.usedZeroPath = eq0(setv.f[1], setv.beta_cast),
                  !.pc = IF eq0(setv.f[1], setv.beta_cast)
                         THEN "set0_loop" ELSE "copy_loop"]
    /\ UNCHANGED <<trsm, chk, exp>>

\* for ( i = 0; i < n; ++i ) { set0s( *chi1 ); chi1 += incx; }
KernelSet0 ==
    /\ setv.pc = "set0_loop"
    /\ setv.i < setv.n
    /\ setv' = [setv EXCEPT
                  !.xbuf[setv.chi1] = set0s(setv.f[2]),
                  !.xWrites = Append(@, setv.chi1),
                  !.chi1 = @ + setv.incx,
                  !.i = @ + 1]
    /\ UNCHANGED <<trsm, chk, exp>>

\* A variant of the copy loop that advances by one element.
KernelCopyUnit ==
    /\ setv.pc = "copy_loop"
    /\ setv.i < setv.n
    /\ setv' = [setv EXCEPT
                  !.xbuf[setv.chi1] = copys(setv.f[1], setv.f[2], setv.beta_cast),
                  !.xWrites = Append(@, setv.chi1),
                  !.chi1 = @ + (IF setv.incx < 0 THEN -1 ELSE 1),
                  !.i = @ + 1]
    /\ UNCHANGED <<trsm, chk, exp>>

\* for ( i = 0; i < n; ++i ) { copys( *beta_cast, *chi1 ); chi1 += incx; }
KernelCopy ==
    /\ setv.pc = "copy_loop"
    /\ setv.i < setv.n
    /\ setv' = [setv EXCEPT
                  !.xbuf[setv.chi1] = copys(setv.f[1], setv.f[2], setv.beta_cast),
                  !.xWrites = Append(@, setv.chi1),
                  !.chi1 = @ + setv.incx,
                  !.i = @ + 1]
    /\ UNCHANGED <<trsm, chk, exp>>

\* Either loop ends and the kernel returns.
KernelReturn ==
    /\ setv.pc \in {"set0_loop", "copy_loop"}
    /\ ~(setv.i < setv.n)
    /\ setv' = [setv EXCEPT !.pc = "done"]
    /\ UNCHANGED <<trsm, chk, exp>>

SetvNext ==
    \/ SetvDispatch
    \/ SetvInvoke
    \/ SetvInvokeNull
    \/ KernelZeroDim
    \/ KernelTest
    \/ KernelSet0
    \/ KernelCopy
    \/ KernelReturn

(***************************************************************************)
(* Exact arithmetic for the residual check: a rational is a pair           *)
(* <<numerator, denominator>> in lowest terms with a positive denominator. *)
(***************************************************************************)
RECURSIVE GCD(_, _)
GCD(x, y) == IF y = 0 THEN x ELSE GCD(y, x % y)

Q(num, den) ==
    LET sg == IF den < 0 THEN -1 ELSE 1
        g == GCD(Abs(num), Abs(den))
    IN  <<(sg * num) \div g, (sg * den) \div g>>

QAdd(x, y) == Q(x[1] * y[2] + y[1] * x[2], x[2] * y[2])

QMul(x, y) == Q(x[1] * y[1], x[2] * y[2])

QNeg(x) == <<-x[1], x[2]>>

RECURSIVE QSum(_, _)
\* The sum of term[0], ..., term[cnt-1].
QSum(term, cnt) ==
    IF cnt = 0 THEN Q(0, 1) ELSE QAdd(QSum(term, cnt - 1), term[cnt - 1])

BLIS_ONE == Q(1, 1)

BLIS_ZERO == Q(0, 1)

(***************************************************************************)
(* The primitives libblis_test_syrk_check calls, on exact values.          *)
(***************************************************************************)
\* Element (ii, jj) of a symmetric matrix of which the triangle uplo is
\* stored: the other triangle is not read.
SymAt(C, uplo, ii, jj) ==
    IF (uplo = "lower" /\ ii >= jj) \/ (uplo = "upper" /\ ii <= jj)
    THEN C[<<ii, jj>>] ELSE C[<<jj, ii>>]

\* beta * y, with y not read when beta is zero.
ScaledY(bt, y, ii) == IF bt = BLIS_ZERO THEN BLIS_ZERO ELSE QMul(bt, y[ii])

\* bli_symv( alpha, a, x, beta, y ):  y := beta * y + alpha * a * x
symv(al, C, uplo, x, bt, y) ==
    [ii \in DOMAIN y |->
        QAdd(ScaledY(bt, y, ii),
             QMul(al, QSum([jj \in DOMAIN x |->
                               QMul(SymAt(C, uplo, ii, jj), x[jj])],
                           Cardinality(DOMAIN x))))]

\* bli_gemv( alpha, a, x, beta, y ):  y := beta * y + alpha * transa(a) * x
gemv(al, A, trans, x, bt, y) ==
    [ii \in DOMAIN y |->
        QAdd(ScaledY(bt, y, ii),
             QMul(al, QSum([jj \in DOMAIN x |->
                               QMul(IF trans THEN A[<<jj, ii>>]
                                    ELSE A[<<ii, jj>>], x[jj])],
                           Cardinality(DOMAIN x))))]

\* bli_scalv( beta, x ):  x := beta * x
scalv(bt, x) == [ii \in DOMAIN x |-> QMul(bt, x[ii])]

\* bli_subv( x, y ):  y := y - x
subv(x, y) == [ii \in DOMAIN y |-> QAdd(y[ii], QNeg(x[ii]))]

\* bli_fnormv( x, norm ): the Frobenius norm of x, a non-negative real that
\* is kept as its square, the sum of the squares of the elements.
fnormv(x) ==
    [sq |-> QSum([ii \in DOMAIN x |-> QMul(x[ii], x[ii])],
                 Cardinality(DOMAIN x))]

(***************************************************************************)
(* The inputs of libblis_test_syrk_check.                                  *)
(***************************************************************************)
Idx(cnt) == 0..(cnt - 1)

\* transa(A), m x k, as libblis_test_syrk_experiment leaves it: normalized
\* by k.
AInput(seed, kk, ii, pp) ==
    IF seed = "inc" THEN Q(ii + 2 * pp + 1, kk)
    ELSE Q((IF (ii + pp) % 2 = 0 THEN 1 ELSE -1) * (ii + 1), kk)

\* The saved C: symmetric, with the triangle that is not stored zeroed.
COrigInput(seed, uplo, ii, jj) ==
    IF (uplo = "lower" /\ ii < jj) \/ (uplo = "upper" /\ ii > jj) THEN Q(0, 1)
    ELSE IF seed = "inc" THEN Q(ii + jj + 1, 2) ELSE Q(ii * jj - 1, 1)

\* beta * C_orig + alpha * transa(A) * transa(A)^T at (ii, jj)
SyrkAt(al, A, kk, bt, Co, uplo, ii, jj) ==
    QAdd(QMul(bt, SymAt(Co, uplo, ii, jj)),
         QMul(al, QSum([pp \in Idx(kk) |-> QMul(A[<<ii, pp>>], A[<<jj, pp>>])],
                       kk)))

Stored(uplo, mm) ==
    {p \in Idx(mm) \X Idx(mm) :
        (uplo = "lower" /\ p[1] >= p[2]) \/ (uplo = "upper" /\ p[1] <= p[2])}

\* The values bli_randv may draw.
RandVals == {Q(1, 1), Q(-1, 2)}

\* What a fresh bli_obj_create buffer holds.
Uninit(cnt) == [ii \in Idx(cnt) |-> Q(77, 1)]

ChkIdle ==
    [pc |-> "idle", m |-> 0, k |-> 0, uplo |-> "lower",
     alpha |-> Q(0, 1), beta |-> Q(0, 1), a |-> <<>>, c |-> <<>>,
     c_orig |-> <<>>,
     kappa |-> Q(0, 1), norm |-> [sq |-> Q(0, 1)],
     t |-> <<>>, v |-> <<>>, w |-> <<>>, z |-> <<>>, t_rand |-> <<>>,
     resid |-> [sq |-> Q(0, 1)], ops |-> <<>>]

\* C is the result of an implementation of syrk: the exact result, or the
\* exact result with one stored element off by one.
ChkInit ==
    \E mm \in 1..MaxCheckM, kk \in 1..MaxCheckK, uplo \in {"lower", "upper"},
       sa \in {"inc", "alt"}, sc \in {"inc", "mul"},
       al \in {Q(6, 5), Q(2, 1)}, bt \in {Q(-1, 1), Q(1, 2)} :
      \E err \in {<<>>} \cup Stored(uplo, mm) :
        LET A0 == [p \in Idx(mm) \X Idx(kk) |-> AInput(sa, kk, p[1], p[2])]
            Co == [p \in Idx(mm) \X Idx(mm) |->
                      COrigInput(sc, uplo, p[1], p[2])]
            C1 == [p \in Idx(mm) \X Idx(mm) |->
                      IF p \notin Stored(uplo, mm) THEN Q(0, 1)
                      ELSE QAdd(SyrkAt(al, A0, kk, bt, Co, uplo, p[1], p[2]),
                                IF p = err THEN Q(1, 1) ELSE Q(0, 1))]
        IN  chk = [ChkIdle EXCEPT !.pc = "create", !.m = mm, !.k = kk,
                                  !.uplo = uplo, !.alpha = al, !.beta = bt,
                                  !.a = A0, !.c = C1, !.c_orig = Co]

(***************************************************************************)
(* libblis_test_syrk_check, one action per statement.                      *)
(***************************************************************************)
\* Lines 301-309: alias at, create the scalars and the vectors t, v, w, z.
ChkCreate ==
    /\ chk.pc = "create"
    /\ chk' = [chk EXCEPT !.t = Uninit(chk.m), !.v = Uninit(chk.m),
                          !.w = Uninit(chk.k), !.z = Uninit(chk.m),
                          !.pc = "randv"]
    /\ UNCHANGED <<trsm, setv, exp>>

\* bli_randv( &t );
ChkRandv ==
    /\ chk.pc = "randv"
    /\ \E r \in [Idx(chk.m) -> RandVals] :
          chk' = [chk EXCEPT !.t = r, !.t_rand = r,
                             !.ops = Append(@, "randv"), !.pc = "setsc"]
    /\ UNCHANGED <<trsm, setv, exp>>

\* bli_setsc( 1.0/( double )m, 0.0, &kappa );
ChkSetsc ==
    /\ chk.pc = "setsc"
    /\ chk' = [chk EXCEPT !.kappa = Q(1, chk.m),
                          !.ops = Append(@, "setsc"), !.pc = "scalv"]
    /\ UNCHANGED <<trsm, setv, exp>>

\* bli_scalv( &kappa, &t );
ChkScalv ==
    /\ chk.pc = "scalv"
    /\ chk' = [chk EXCEPT !.t = scalv(chk.kappa, chk.t),
                          !.ops = Append(@, "scalv"), !.pc = "symv_v"]
    /\ UNCHANGED <<trsm, setv, exp>>

\* bli_symv( &BLIS_ONE, c, &t, &BLIS_ZERO, &v );
ChkSymvV ==
    /\ chk.pc = "symv_v"
    /\ chk' = [chk EXCEPT
                 !.v = symv(BLIS_ONE, chk.c, chk.uplo, chk.t, BLIS_ZERO, chk.v),
                 !.ops = Append(@, "symv"), !.pc = "gemv_w"]
    /\ UNCHANGED <<trsm, setv, exp>>

\* bli_gemv( &BLIS_ONE, &at, &t, &BLIS_ZERO, &w );
ChkGemvW ==
    /\ chk.pc = "gemv_w"
    /\ chk' = [chk EXCEPT
                 !.w = gemv(BLIS_ONE, chk.a, TRUE, chk.t, BLIS_ZERO, chk.w),
                 !.ops = Append(@, "gemv"), !.pc = "gemv_z"]
    /\ UNCHANGED <<trsm, setv, exp>>

\* bli_gemv( alpha, a, &w, &BLIS_ZERO, &z );
ChkGemvZ ==
    /\ chk.pc = "gemv_z"
    /\ chk' = [chk EXCEPT
                 !.z = gemv(chk.alpha, chk.a, FALSE, chk.w, BLIS_ZERO, chk.z),
                 !.ops = Append(@, "gemv"), !.pc = "symv_z"]
    /\ UNCHANGED <<trsm, setv, exp>>

\* A variant that overwrites z instead of accumulating into it.
ChkSymvZOver ==
    /\ chk.pc = "symv_z"
    /\ chk' = [chk EXCEPT
                 !.z = symv(chk.beta, chk.c_orig, chk.uplo, chk.t, BLIS_ZERO,
                            chk.z),
                 !.ops = Append(@, "symv"), !.pc = "subv"]
    /\ UNCHANGED <<trsm, setv, exp>>

\* bli_symv( beta, c_orig, &t, &BLIS_ONE, &z );
ChkSymvZ ==
    /\ chk.pc = "symv_z"
    /\ chk' = [chk EXCEPT
                 !.z = symv(chk.beta, chk.c_orig, chk.uplo, chk.t, BLIS_ONE,
                            chk.z),
                 !.ops = Append(@, "symv"), !.pc = "subv"]
    /\ UNCHANGED <<trsm, setv, exp>>

\* bli_subv( &z, &v );
ChkSubv ==
    /\ chk.pc = "subv"
    /\ chk' = [chk EXCEPT !.v = subv(chk.z, chk.v),
                          !.ops = Append(@, "subv"), !.pc = "fnormv"]
    /\ UNCHANGED <<trsm, setv, exp>>

\* bli_fnormv( &v, &norm );
ChkFnormv ==
    /\ chk.pc = "fnormv"
    /\ chk' = [chk EXCEPT !.norm = fnormv(chk.v),
                          !.ops = Append(@, "fnormv"), !.pc = "getsc"]
    /\ UNCHANGED <<trsm, setv, exp>>

\* bli_getsc( &norm, resid, &junk ); and the function returns.
ChkGetsc ==
    /\ chk.pc = "getsc"
    /\ chk' = [chk EXCEPT !.resid = chk.norm,
                          !.ops = Append(@, "getsc"), !.pc = "done"]
    /\ UNCHANGED <<trsm, setv, exp>>

ChkNext ==
    \/ ChkCreate
    \/ ChkRandv
    \/ ChkSetsc
    \/ ChkScalv
    \/ ChkSymvV
    \/ ChkGemvW
    \/ ChkGemvZ
    \/ ChkSymvZ
    \/ ChkSubv
    \/ ChkFnormv
    \/ ChkGetsc

(***************************************************************************)
(* The matrix operations libblis_test_syrk_experiment calls, on exact      *)
(* values.  A matrix object with a stored triangle is operated on in that  *)
(* triangle.                                                               *)
(***************************************************************************)
\* bli_randm( c ): random values in the stored triangle of c.
randm_sym(seed, uplo, mm, C) ==
    [p \in Idx(mm) \X Idx(mm) |->
        IF p \in Stored(uplo, mm) THEN COrigInput(seed, uplo, p[1], p[2])
        ELSE C[p]]

\* bli_mksymm( c ): the stored triangle reflected into the other one.
mksymm(uplo, mm, C) ==
    [p \in Idx(mm) \X Idx(mm) |-> SymAt(C, uplo, p[1], p[2])]

\* bli_mktrim( c ): the triangle that is not stored set to zero.
mktrim(uplo, mm, C) ==
    [p \in Idx(mm) \X Idx(mm) |->
        IF p \in Stored(uplo, mm) THEN C[p] ELSE Q(0, 1)]

\* bli_copym( x, y ): y := x, in the whole matrix or in the stored triangle
\* of x only.
copym(whole, uplo, mm, X, Y) ==
    [p \in Idx(mm) \X Idx(mm) |->
        IF whole \/ p \in Stored(uplo, mm) THEN X[p] ELSE Y[p]]

\* bli_scalm( kappa, a ): a := kappa * a
scalm(kp, A) == [p \in DOMAIN A |-> QMul(kp, A[p])]

\* bli_syrk( alpha, a, beta, c ): c := beta * c + alpha * a * a^T in the
\* stored triangle of c.
syrk(al, A, kk, bt, uplo, mm, C) ==
    [p \in Idx(mm) \X Idx(mm) |->
        IF p \in Stored(uplo, mm)
        THEN SyrkAt(al, A, kk, bt, C, uplo, p[1], p[2]) ELSE C[p]]

\* What a fresh matrix buffer holds.
UninitM(rows, cols) == [p \in Idx(rows) \X Idx(cols) |-> Q(77, 1)]

ExpIdle ==
    [pc |-> "idle", n_repeats |-> 0, i |-> 0, m |-> 0, k |-> 0,
     uploc |-> "lower", whole |-> FALSE,
     alpha |-> Q(0, 1), beta |-> Q(0, 1), kappa |-> Q(0, 1),
     a |-> <<>>, c |-> <<>>, c_save |-> <<>>,
     c_trim |-> <<>>, c_saved |-> <<>>, implLog |-> <<>>,
     resid |-> [sq |-> Q(0, 1)]]

\* Lines 132-167: the parameters, the dimensions and the operands.
ExpInit ==
    \E mm \in 1..MaxCheckM, kk \in 1..MaxCheckK, uplo \in {"lower", "upper"},
       reps \in 0..MaxRepeats, whole \in BOOLEAN :
        exp = [ExpIdle EXCEPT !.pc = "setsc", !.n_repeats = reps, !.m = mm,
                              !.k = kk, !.uploc = uplo, !.whole = whole,
                              !.a = UninitM(mm, kk), !.c = UninitM(mm, mm),
                              !.c_save = UninitM(mm, mm)]

(***************************************************************************)
(* libblis_test_syrk_experiment for a real datatype.                       *)
(***************************************************************************)
\* bli_setsc( 1.2, 0.0, &alpha ); bli_setsc( -1.0, 0.0, &beta );
ExpSetsc ==
    /\ exp.pc = "setsc"
    /\ exp' = [exp EXCEPT !.alpha = Q(12, 10), !.beta = Q(-1, 1),
                          !.pc = "randm_a"]
    /\ UNCHANGED <<trsm, setv, chk>>

\* bli_randm( &a );
ExpRandmA ==
    /\ exp.pc = "randm_a"
    /\ \E seed \in {"inc", "alt"} :
          exp' = [exp EXCEPT
                    !.a = [p \in Idx(exp.m) \X Idx(exp.k) |->
                              AInput(seed, 1, p[1], p[2])],
                    !.pc = "randm_c"]
    /\ UNCHANGED <<trsm, setv, chk>>

\* bli_obj_set_struc, bli_obj_set_uplo on c; bli_randm( &c );
ExpRandmC ==
    /\ exp.pc = "randm_c"
    /\ \E seed \in {"inc", "mul"} :
          exp' = [exp EXCEPT !.c = randm_sym(seed, exp.uploc, exp.m, exp.c),
                             !.pc = "mksymm"]
    /\ UNCHANGED <<trsm, setv, chk>>

\* bli_mksymm( &c );
ExpMksymm ==
    /\ exp.pc = "mksymm"
    /\ exp' = [exp EXCEPT !.c = mksymm(exp.uploc, exp.m, exp.c),
                          !.pc = "mktrim"]
    /\ UNCHANGED <<trsm, setv, chk>>

\* bli_mktrim( &c );
ExpMktrim ==
    /\ exp.pc = "mktrim"
    /\ exp' = [exp EXCEPT !.c = mktrim(exp.uploc, exp.m, exp.c),
                          !.pc = "save"]
    /\ UNCHANGED <<trsm, setv, chk>>

\* bli_obj_set_struc, bli_obj_set_uplo on c_save; bli_copym( &c, &c_save );
ExpSave ==
    /\ exp.pc = "save"
    /\ LET saved == copym(exp.whole, exp.uploc, exp.m, exp.c, exp.c_save)
       IN  exp' = [exp EXCEPT !.c_save = saved, !.c_saved = saved,
                              !.c_trim = exp.c, !.pc = "scalm"]
    /\ UNCHANGED <<trsm, setv, chk>>

\* bli_setsc( 1.0/( double )k, 0.0, &kappa ); bli_scalm( &kappa, &a );
ExpScalm ==
    /\ exp.pc = "scalm"
    /\ exp' = [exp EXCEPT !.kappa = Q(1, exp.k),
                          !.a = scalm(Q(1, exp.k), exp.a),
                          !.i = 0, !.pc = "loop"]
    /\ UNCHANGED <<trsm, setv, chk>>

\* A variant of the head of the loop that does not restore c.
ExpLoopKeep ==
    /\ exp.pc = "loop"
    /\ exp.i < exp.n_repeats
    /\ exp' = [exp EXCEPT !.pc = "impl"]
    /\ UNCHANGED <<trsm, setv, chk>>

\* for ( i = 0; i < n_repeats; ++i ) { bli_copym( &c_save, &c );
ExpLoopCopy ==
    /\ exp.pc = "loop"
    /\ exp.i < exp.n_repeats
    /\ exp' = [exp EXCEPT
                 !.c = copym(exp.whole, exp.uploc, exp.m, exp.c_save, exp.c),
                 !.pc = "impl"]
    /\ UNCHANGED <<trsm, setv, chk>>

\* libblis_test_syrk_impl( impl, &alpha, &a, &beta, &c ); ++i }
ExpImpl ==
    /\ exp.pc = "impl"
    /\ exp' = [exp EXCEPT
                 !.implLog = Append(@, exp.c),
                 !.c = syrk(exp.alpha, exp.a, exp.k, exp.beta, exp.uploc,
                            exp.m, exp.c),
                 !.i = @ + 1,
                 !.pc = "loop"]
    /\ UNCHANGED <<trsm, setv, chk>>

\* The loop ends: libblis_test_syrk_check( &alpha, &a, &beta, &c, &c_save,
\* resid ) is entered.
ExpCheck ==
    /\ exp.pc = "loop"
    /\ ~(exp.i < exp.n_repeats)
    /\ exp' = [exp EXCEPT !.pc = "in_check"]
    /\ chk' = [ChkIdle EXCEPT !.pc = "create", !.m = exp.m, !.k = exp.k,
                              !.uplo = exp.uploc, !.alpha = exp.alpha,
                              !.beta = exp.beta, !.a = exp.a, !.c = exp.c,
                              !.c_orig = exp.c_save]
    /\ UNCHANGED <<trsm, setv>>

\* The check returns; the operands are freed.
ExpReturn ==
    /\ exp.pc = "in_check"
    /\ chk.pc = "done"
    /\ exp' = [exp EXCEPT !.resid = chk.resid, !.pc = "done"]
    /\ UNCHANGED <<trsm, setv, chk>>

ExpNext ==
    \/ ExpSetsc
    \/ ExpRandmA
    \/ ExpRandmC
    \/ ExpMksymm
    \/ ExpMktrim
    \/ ExpSave
    \/ ExpScalm
    \/ ExpLoopCopy
    \/ ExpImpl
    \/ ExpCheck
    \/ ExpReturn

Init ==
    \/ (TrsmInit /\ setv = SetvIdle /\ chk = ChkIdle /\ exp = ExpIdle)
    \/ (SetvInit /\ trsm = TrsmIdle /\ chk = ChkIdle /\ exp = ExpIdle)
    \/ (ChkInit /\ trsm = TrsmIdle /\ setv = SetvIdle /\ exp = ExpIdle)
    \/ (ExpInit /\ trsm = TrsmIdle /\ setv = SetvIdle /\ chk = ChkIdle)

Next == TrsmNext \/ SetvNext \/ ChkNext \/ ExpNext

Spec == Init /\ [][Next]_vars

(***************************************************************************)
(* The reference back-substitution, over a packed A given as an argument.  *)
(***************************************************************************)
\* Element (ii, ll) of a packed A11 and element (ii, jj) of the B11 and the
\* C11 of a state.
AAt(A, t, ii, ll) == A[ii + ll * t.packmr]

BAt(B, t, ii, jj) == B[ii * t.packnr + jj]

CAt(C, t, ii, jj) == C[ii * t.rs_c + jj * t.cs_c]

RECURSIVE RefX(_, _, _, _), RefAcc(_, _, _, _, _)
\* x[ii,jj] = (B[ii,jj] - sum over ll > ii of A[ii,ll] * x[ll,jj]) * Astored[ii,ii]
RefX(A, t, ii, jj) ==
    Mul(Add(BAt(t.b0, t, ii, jj), Neg(RefAcc(A, t, ii, jj, t.m - 1 - ii))),
        AAt(A, t, ii, ii))

\* The sum of the first cnt terms A[ii,ii+1]*x[ii+1,jj], A[ii,ii+2]*x[ii+2,jj], ...
RefAcc(A, t, ii, jj, cnt) ==
    IF cnt = 0 THEN F(0)
    ELSE Add(RefAcc(A, t, ii, jj, cnt - 1),
             Mul(AAt(A, t, ii, ii + cnt), RefX(A, t, ii + cnt, jj)))

Rows(t) == 0..(t.m - 1)

Cols(t) == 0..(t.n - 1)

\* The packed A with every element below the diagonal replaced by zero.
ZeroLower(t) ==
    [q \in DOMAIN t.a |->
        IF (q % t.packmr) > (q \div t.packmr) THEN F(0) ELSE t.a[q]]

\* The offsets of A that lie in the stored triangle: (ii, ll), ii <= ll < m.
UpperOffsets(t) ==
    {ii + ll * t.packmr : ii \in Rows(t), ll \in Rows(t)} \cap
    {q \in DOMAIN t.a : (q % t.packmr) <= (q \div t.packmr)}

IdentityA(t) ==
    \A ii \in Rows(t), ll \in Rows(t) :
        /\ ii = ll => AAt(t.a, t, ii, ll) = F(1)
        /\ ii < ll => AAt(t.a, t, ii, ll) = F(0)

FiniteB0(t) == \A ii \in Rows(t), jj \in Cols(t) : IsFinite(BAt(t.b0, t, ii, jj))

\* C1: when bli_dtrsm_u_opt_mxn returns, C holds at (i, j) the value x[i,j]
\* of the reference back-substitution, which multiplies by the stored
\* reciprocal of the diagonal.
ThmC1 ==
    trsm.pc = "done" =>
        \A ii \in Rows(trsm), jj \in Cols(trsm) :
            CAt(trsm.c, trsm, ii, jj) = RefX(trsm.a, trsm, ii, jj)

WitC1 ==
    /\ trsm.pc = "done"
    /\ trsm.m = 2 /\ trsm.n = 2
    /\ AAt(trsm.a, trsm, 0, 1) = F(-1)
    /\ AAt(trsm.a, trsm, 0, 0) = F(2)
    /\ BAt(trsm.b0, trsm, 0, 0) = F(1) /\ BAt(trsm.b0, trsm, 1, 0) = F(3)
    /\ AAt(trsm.a, trsm, 1, 1) = F(1)
    /\ CAt(trsm.c, trsm, 0, 0) = F(8)

\* C2: when bli_dtrsm_u_opt_mxn returns, the packed B at (i, j) and C at
\* (i, j) hold the same value, for every i < m and j < n.
ThmC2 ==
    trsm.pc = "done" =>
        \A ii \in Rows(trsm), jj \in Cols(trsm) :
            BAt(trsm.b, trsm, ii, jj) = CAt(trsm.c, trsm, ii, jj)

WitC2 ==
    /\ trsm.pc = "done"
    /\ trsm.m = 2 /\ trsm.n = 2
    /\ trsm.packnr = 3
    /\ trsm.rs_c = 1
    /\ \A ii \in Rows(trsm), jj \in Cols(trsm) :
          /\ AAt(trsm.a, trsm, ii, ii) = F(2)
          /\ BAt(trsm.b, trsm, ii, jj) # BAt(trsm.b0, trsm, ii, jj)

SolvedIsB0(t) ==
    \A ii \in Rows(t), jj \in Cols(t) :
        /\ CAt(t.c, t, ii, jj) = BAt(t.b0, t, ii, jj)
        /\ BAt(t.b, t, ii, jj) = BAt(t.b0, t, ii, jj)

\* C3 as stated: with A the identity (stored reciprocals 1, strictly upper
\* elements 0), on return C equals the input B and the B micro-panel holds
\* the values it held before the call.
CexC3 == (trsm.pc = "done" /\ IdentityA(trsm)) => SolvedIsB0(trsm)

\* C3 amended: the same, for an input B whose elements are all finite.
ThmC3 ==
    (trsm.pc = "done" /\ IdentityA(trsm) /\ FiniteB0(trsm)) => SolvedIsB0(trsm)

WitC3 ==
    /\ trsm.pc = "done"
    /\ trsm.m = 2 /\ trsm.n = 2
    /\ IdentityA(trsm)
    /\ FiniteB0(trsm)
    /\ BAt(trsm.b0, trsm, 1, 1) = F(-6)

\* C10: every read of A is at an offset of the stored triangle, (i, l) with
\* i <= l < m, and the B and C the kernel returns are those of the packed A
\* whose elements below the diagonal are zero instead.
ThmC10 ==
    /\ trsm.aReads \subseteq UpperOffsets(trsm)
    /\ trsm.pc = "done" =>
          \A ii \in Rows(trsm), jj \in Cols(trsm) :
              /\ CAt(trsm.c, trsm, ii, jj) = RefX(ZeroLower(trsm), trsm, ii, jj)
              /\ BAt(trsm.b, trsm, ii, jj) = RefX(ZeroLower(trsm), trsm, ii, jj)

WitC10 ==
    /\ trsm.pc = "done"
    /\ trsm.m = 2 /\ trsm.n = 1
    /\ trsm.a[1] = NaN
    /\ Cardinality(trsm.aReads) = 3
    /\ IsFinite(CAt(trsm.c, trsm, 0, 0))

(***************************************************************************)
(* Properties of setv.                                                     *)
(***************************************************************************)
KernelCalled == setv.calls # <<>>

XAddressed == Addressed(setv.x.off, setv.x.n, setv.x.inc)

\* C4: the setv kernel called with n = 0 never writes an element of x, and
\* the micro-kernel with m = 0 or n = 0 never writes an element of the B
\* micro-panel or of C; the buffers are those of before the call and neither
\* kernel ends in a fault.
ThmC4 ==
    /\ (KernelCalled /\ setv.n = 0) =>
          /\ setv.xWrites = <<>>
          /\ setv.xbuf = setv.xbuf0
          /\ setv.pc \in {"zero_dim", "done"}
    /\ (trsm.pc # "idle" /\ (trsm.m = 0 \/ trsm.n = 0)) =>
          /\ trsm.bWrites = <<>> /\ trsm.cWrites = <<>>
          /\ trsm.b = trsm.b0 /\ trsm.c = trsm.c0
          /\ trsm.pc \in {"iter_loop", "j_loop", "done"}

WitC4 ==
    /\ trsm.pc = "done"
    /\ trsm.m = 2 /\ trsm.n = 0
    /\ trsm.iter = 2
    /\ trsm.b = trsm.b0 /\ trsm.c = trsm.c0

\* C5: when beta compares equal to zero under its type, the kernel takes the
\* zero-fill loop and every addressed element ends as the zero of the type
\* of x, whatever it held before.
ThmC5 ==
    (setv.pc = "done" /\ KernelCalled /\ eq0(setv.f[1], setv.beta_cast)) =>
        /\ \A q \in XAddressed : setv.xbuf[q] = [re |-> F(0), im |-> F(0)]
        /\ setv.n > 0 => setv.usedZeroPath

WitC5 ==
    /\ setv.pc = "done"
    /\ setv.f = <<"d", "s">>
    /\ setv.beta_cast.re = NegZero
    /\ setv.x.n = 4 /\ setv.x.inc = 2 /\ setv.x.off = 0
    /\ setv.xbuf0[4].re = NaN /\ setv.xbuf0[2].re = PInf
    /\ setv.xbuf[4].re = F(0) /\ setv.xbuf[2].re = F(0)

\* What the kernel is to store: beta converted to the type of x, the zero
\* of that type when beta is zero.
Expected ==
    IF eq0(setv.f[1], setv.beta_cast) THEN [re |-> F(0), im |-> F(0)]
    ELSE copys(setv.f[1], setv.f[2], setv.beta_cast)

\* C6: for n > 0, when the kernel returns the elements at offsets 0, incx,
\* ..., (n-1)*incx from x hold beta converted to the type of x, and every
\* other element of the buffer is unchanged.
ThmC6 ==
    (setv.pc = "done" /\ KernelCalled /\ setv.x.n > 0) =>
        \A q \in DOMAIN setv.xbuf :
            IF q \in XAddressed THEN setv.xbuf[q] = Expected
            ELSE setv.xbuf[q] = setv.xbuf0[q]

WitC6 ==
    /\ setv.pc = "done"
    /\ setv.f = <<"z", "c">>
    /\ setv.beta.re = F(SingleExact + 1) /\ setv.beta.im = F(-2)
    /\ setv.x.n = 4 /\ setv.x.inc = -2 /\ setv.x.off = XLen - 1
    /\ setv.xbuf[0] = [re |-> F(SingleExact), im |-> F(-2)]
    /\ setv.xbuf[1].re = NaN

\* C8 as stated: a pair whose table entry is null is detected and the
\* dispatcher fails before the call; there is no call through a null
\* pointer, and no return as if nothing had been asked.
CexC8 ==
    (setv.pc \notin {"idle", "start"} /\ setv.f = NULL) =>
        /\ ~setv.nullCall
        /\ setv.pc \in {"invoke", "abort"}

\* C9: the key is (dt_beta, dt_x), with dt_x the datatype of x and dt_beta
\* that of x for a constant beta and beta's own otherwise; a homogeneous key
\* selects a routine in every configuration; the routine is invoked once,
\* with the length, buffer and stride of x.
ThmC9 ==
    /\ setv.pc \notin {"idle", "start"} =>
          /\ setv.dt_x = setv.x.dt
          /\ setv.dt_beta = (IF setv.beta.dt = "constant" THEN setv.x.dt
                             ELSE setv.beta.dt)
          /\ setv.f \in {NULL, <<setv.dt_beta, setv.dt_x>>}
          /\ setv.dt_beta = setv.dt_x => setv.f = <<setv.dt_x, setv.dt_x>>
    /\ Len(setv.calls) <= 1
    /\ (setv.pc = "done" /\ setv.f # NULL) =>
          setv.calls = <<[f |-> <<setv.dt_beta, setv.dt_x>>, n |-> setv.x.n,
                          x |-> setv.x.off, incx |-> setv.x.inc]>>

WitC9 ==
    /\ setv.pc = "done"
    /\ setv.cfg = "MIN"
    /\ setv.beta.dt = "constant" /\ setv.beta.re = F(-1)
    /\ setv.x.dt = "z" /\ setv.x.n = 3
    /\ Len(setv.calls) = 1
    /\ setv.xWrites = <<0, 1, 2>>

(***************************************************************************)
(* Properties of libblis_test_syrk_check.                                  *)
(***************************************************************************)
\* The probe: the random vector scaled by 1/m.
Probe == [ii \in Idx(chk.m) |-> QMul(chk.t_rand[ii], Q(1, chk.m))]

\* (C * t)[ii] for a symmetric C
SymTimesProbe(C, ii) ==
    QSum([jj \in Idx(chk.m) |-> QMul(SymAt(C, chk.uplo, ii, jj), Probe[jj])],
         chk.m)

\* (A^T * t)[pp]
AtTimesProbe(pp) ==
    QSum([qq \in Idx(chk.m) |-> QMul(chk.a[<<qq, pp>>], Probe[qq])], chk.m)

\* v - z at ii, with v = C*t and z = beta*(C_orig*t) + alpha*A*(A^T*t)
Difference(ii) ==
    QAdd(SymTimesProbe(chk.c, ii),
         QNeg(QAdd(QMul(chk.beta, SymTimesProbe(chk.c_orig, ii)),
                   QMul(chk.alpha,
                        QSum([pp \in Idx(chk.k) |->
                                 QMul(chk.a[<<ii, pp>>], AtTimesProbe(pp))],
                             chk.k)))))

\* C = beta * C_orig + alpha * A * A^T
SyrkExact ==
    \A ii \in Idx(chk.m), jj \in Idx(chk.m) :
        SymAt(chk.c, chk.uplo, ii, jj) =
            SyrkAt(chk.alpha, chk.a, chk.k, chk.beta, chk.c_orig, chk.uplo,
                   ii, jj)

\* C7: the check returns fnorm(v - z) for v = C*t and
\* z = beta*(C_orig*t) + alpha*A*(A^T*t), t a random vector scaled by 1/m;
\* it calls randv, scalv, symv, gemv, subv and fnormv (with the scalar
\* accessors setsc and getsc) and never syrk; the residual is non-negative,
\* and zero when C = beta*C_orig + alpha*A*A^T.
ThmC7 ==
    /\ \A q \in DOMAIN chk.ops :
          chk.ops[q] \in {"randv", "setsc", "scalv", "symv", "gemv", "subv",
                          "fnormv", "getsc"}
    /\ chk.pc = "done" =>
          /\ chk.resid.sq =
                QSum([ii \in Idx(chk.m) |-> QMul(Difference(ii), Difference(ii))],
                     chk.m)
          /\ chk.resid.sq[1] >= 0 /\ chk.resid.sq[2] > 0
          /\ SyrkExact => chk.resid.sq = Q(0, 1)
          /\ chk.ops = <<"randv", "setsc", "scalv", "symv", "gemv", "gemv",
                         "symv", "subv", "fnormv", "getsc">>

WitC7 ==
    /\ chk.pc = "done"
    /\ chk.m = 2 /\ chk.k = 2
    /\ SyrkExact
    /\ chk.alpha = Q(6, 5)
    /\ chk.t_rand = [ii \in Idx(2) |-> IF ii = 0 THEN Q(1, 1) ELSE Q(-1, 2)]
    /\ chk.resid.sq = Q(0, 1)

(***************************************************************************)
(* Properties of the order and of the footprint of bli_dtrsm_u_opt_mxn.    *)
(***************************************************************************)
\* The offsets of element (ii, jj) in the packed B and in C.
BOff(t, ii, jj) == ii * t.packnr + jj

COff(t, ii, jj) == ii * t.rs_c + jj * t.cs_c

\* The number of stores to the offset off of B among the first cnt entries
\* of the log.
WritesBefore(t, off, cnt) ==
    Cardinality({p \in 1..cnt : t.bLog[p] = <<"w", off>>})

\* The rows whose every element has had both of its stores (bli_dsubs and
\* bli_dscals).
FinalizedRows(t) ==
    {ii \in Rows(t) :
        \A jj \in Cols(t) : WritesBefore(t, BOff(t, ii, jj), Len(t.bLog)) = 2}

\* C11: rows are processed in the order m-1, m-2, ..., 0; within row i,
\* n_behind is m-1-i, the number of rows already finalized; the
\* accumulation of (i, j) reads exactly the elements (l, j) of B with
\* i < l < m, each after both of its stores and with no store after the read.
ThmC11 ==
    /\ trsm.rowOrder = [q \in 1..Len(trsm.rowOrder) |-> trsm.m - q]
    /\ trsm.pc = "done" => Len(trsm.rowOrder) = trsm.m
    /\ trsm.pc \in {"l_loop", "scal"} =>
          /\ trsm.n_behind = trsm.m - 1 - trsm.i
          /\ trsm.n_behind = Cardinality(FinalizedRows(trsm))
          /\ FinalizedRows(trsm) = (trsm.i + 1)..(trsm.m - 1)
    /\ trsm.pc = "l_loop" =>
          trsm.cellReads =
              {BOff(trsm, ll, trsm.j) : ll \in (trsm.i + 1)..(trsm.i + trsm.l)}
    /\ trsm.pc = "scal" =>
          trsm.cellReads =
              {BOff(trsm, ll, trsm.j) : ll \in (trsm.i + 1)..(trsm.m - 1)}
    /\ \A p \in DOMAIN trsm.bLog :
          trsm.bLog[p][1] = "r" =>
              /\ WritesBefore(trsm, trsm.bLog[p][2], p) = 2
              /\ WritesBefore(trsm, trsm.bLog[p][2], Len(trsm.bLog)) = 2
    /\ trsm.pc = "done" =>
          \A ii \in Rows(trsm), jj \in Cols(trsm) :
              WritesBefore(trsm, BOff(trsm, ii, jj), Len(trsm.bLog)) = 2

WitC11 ==
    /\ trsm.pc = "scal"
    /\ trsm.m = 2 /\ trsm.n = 2
    /\ trsm.i = 0 /\ trsm.j = 1
    /\ trsm.n_behind = 1
    /\ trsm.rowOrder = <<1, 0>>
    /\ trsm.cellReads = {BOff(trsm, 1, 1)}
    /\ Len(trsm.bLog) = 9

\* A solve declared unit-diagonal reaches the micro-kernel as a packed A
\* whose diagonal elements are explicitly 1.
UnitDiag(t) == \A ii \in Rows(t) : AAt(t.a, t, ii, ii) = F(1)

DiagOffsets(t) == {ii + ii * t.packmr : ii \in Rows(t)}

RECURSIVE RefUnitX(_, _, _), RefUnitAcc(_, _, _, _)
\* The back-substitution with an implicit unit diagonal: no scaling.
\* x[ii,jj] = B[ii,jj] - sum over ll > ii of A[ii,ll] * x[ll,jj]
RefUnitX(t, ii, jj) ==
    Add(BAt(t.b0, t, ii, jj), Neg(RefUnitAcc(t, ii, jj, t.m - 1 - ii)))

RefUnitAcc(t, ii, jj, cnt) ==
    IF cnt = 0 THEN F(0)
    ELSE Add(RefUnitAcc(t, ii, jj, cnt - 1),
             Mul(AAt(t.a, t, ii, ii + cnt), RefUnitX(t, ii + cnt, jj)))

\* C12 as stated: for a unit-diagonal solve the kernel never reads a
\* diagonal element of the packed A.
CexC12 == UnitDiag(trsm) => trsm.aReads \cap DiagOffsets(trsm) = {}

\* C12 amended: for a unit-diagonal solve the diagonal of the packed A
\* holds explicit ones; the kernel reads every A[i,i] and multiplies by it,
\* and the result is that of the solve with an implicit unit diagonal.
ThmC12 ==
    (trsm.pc = "done" /\ UnitDiag(trsm) /\ trsm.n > 0) =>
        /\ DiagOffsets(trsm) \subseteq trsm.aReads
        /\ \A ii \in Rows(trsm), jj \in Cols(trsm) :
              /\ CAt(trsm.c, trsm, ii, jj) = RefUnitX(trsm, ii, jj)
              /\ BAt(trsm.b, trsm, ii, jj) = RefUnitX(trsm, ii, jj)

WitC12 ==
    /\ trsm.pc = "done"
    /\ trsm.m = 2 /\ trsm.n = 2
    /\ UnitDiag(trsm)
    /\ AAt(trsm.a, trsm, 0, 1) = F(-1)
    /\ BAt(trsm.b0, trsm, 0, 0) = F(1)
    /\ CAt(trsm.c, trsm, 0, 0) = F(4)
    /\ DiagOffsets(trsm) \subseteq trsm.aReads

\* The offsets of the m*n elements of B11 and of C11.
BFootprint(t) == {BOff(t, ii, jj) : ii \in Rows(t), jj \in Cols(t)}

CFootprint(t) == {COff(t, ii, jj) : ii \in Rows(t), jj \in Cols(t)}

SeqRange(sq) == {sq[p] : p \in DOMAIN sq}

\* C14: the kernel never writes A; it writes B only at the offsets
\* i*rs_b + j*cs_b and C only at the offsets i*rs_c + j*cs_c, i < m, j < n,
\* each offset of C once; every other element of the memory of B and of C
\* is unchanged.
ThmC14 ==
    /\ trsm.a = trsm.a0
    /\ SeqRange(trsm.bWrites) \subseteq BFootprint(trsm)
    /\ SeqRange(trsm.cWrites) \subseteq CFootprint(trsm)
    /\ Cardinality(SeqRange(trsm.cWrites)) = Len(trsm.cWrites)
    /\ \A q \in DOMAIN trsm.b :
          q \notin BFootprint(trsm) => trsm.b[q] = trsm.b0[q]
    /\ \A q \in DOMAIN trsm.c :
          q \notin CFootprint(trsm) => trsm.c[q] = trsm.c0[q]
    /\ trsm.pc = "done" =>
          /\ SeqRange(trsm.cWrites) = CFootprint(trsm)
          /\ Len(trsm.cWrites) = trsm.m * trsm.n

WitC14 ==
    /\ trsm.pc = "done"
    /\ trsm.m = 2 /\ trsm.n = 2
    /\ trsm.packnr = 3
    /\ trsm.rs_c = 6 /\ trsm.cs_c = 2
    /\ trsm.cWrites = <<6, 8, 0, 2>>
    /\ trsm.c[1] = trsm.c0[1] /\ trsm.c[7] = trsm.c0[7]
    /\ trsm.b[2] = trsm.b0[2]

(***************************************************************************)
(* Properties of libblis_test_syrk_experiment.                             *)
(***************************************************************************)
\* Two matrix objects are equal when their stored triangles are.
StoredEq(X, Y) == \A p \in Stored(exp.uploc, exp.m) : X[p] = Y[p]

UnstoredZero(X) ==
    \A p \in (Idx(exp.m) \X Idx(exp.m)) \ Stored(exp.uploc, exp.m) :
        X[p] = Q(0, 1)

Saved == exp.pc \in {"scalm", "loop", "impl", "in_check", "done"}

\* C13: at every invocation of the implementation C equals c_save, the
\* randomized symmetric matrix whose other triangle was zeroed; c_save is
\* not modified after it is saved; with n_repeats >= 1 the C passed to the
\* check is one application of syrk to c_save.
ThmC13 ==
    /\ exp.pc = "impl" =>
          /\ StoredEq(exp.c, exp.c_save)
          /\ UnstoredZero(exp.c)
          /\ exp.whole => exp.c = exp.c_save
    /\ \A q \in DOMAIN exp.implLog :
          StoredEq(exp.implLog[q], exp.c_save) /\ UnstoredZero(exp.implLog[q])
    /\ Saved =>
          /\ exp.c_save = exp.c_saved
          /\ StoredEq(exp.c_save, exp.c_trim)
          /\ UnstoredZero(exp.c_trim)
    /\ (exp.pc \in {"in_check", "done"} /\ exp.n_repeats >= 1) =>
          /\ Len(exp.implLog) = exp.n_repeats
          /\ exp.c = syrk(exp.alpha, exp.a, exp.k, exp.beta, exp.uploc,
                          exp.m, exp.c_trim)
          /\ StoredEq(exp.c, syrk(exp.alpha, exp.a, exp.k, exp.beta,
                                  exp.uploc, exp.m, exp.c_save))
          /\ chk.c = exp.c /\ chk.c_orig = exp.c_save

WitC13 ==
    /\ exp.pc = "done"
    /\ exp.n_repeats = 2
    /\ exp.m = 2 /\ exp.k = 2
    /\ Len(exp.implLog) = 2
    /\ exp.implLog[1] = exp.implLog[2]
    /\ exp.c # exp.c_trim
    /\ ~exp.whole
    /\ exp.resid.sq = Q(0, 1)

====
